---- MODULE Spec2Model ----
(***************************************************************************)
(* Training / evaluation harness of recommenders.models.newsrec            *)
(* (models/base_model.py, class BaseModel).                                *)
(*                                                                         *)
(* Five state machines share the variables below:                          *)
(*   Spec      - BaseModel.custom_fit: the epoch loop with the fine-step   *)
(*               learning-rate switch, training pass, evaluation,          *)
(*               checkpointing and the early-stopping callback;            *)
(*   SpecFit   - BaseModel.fit, then custom_fit with its options off, on   *)
(*               the same files;                                           *)
(*   SpecGroup - BaseModel.group_labels applied to bounded inputs;         *)
(*   SpecEval  - BaseModel.run_fast_eval, then run_slow_eval on the same   *)
(*               files;                                                    *)
(*   SpecOpt   - BaseModel._get_opt on a configured optimizer name.        *)
(* Metric values, deltas and learning rates are integers; the code only    *)
(* compares, adds and multiplies them.                                     *)
(***************************************************************************)
EXTENDS Integers, Sequences, FiniteSets, TLC

VARIABLES
    hparams,          \* self.hparams: the hyperparameter record
    n_batches,        \* length of the batch sequence train_iterator yields per pass
    checkpoint_path,  \* TRUE iff the checkpoint_path argument is not None
    test_news_file,   \* TRUE iff the test_news_file argument is not None
    pc,               \* position of custom_fit
    epoch,            \* loop variable of `for epoch in range(1, epochs + 1)`
    step,             \* training steps done in the current epoch
    learning_rate,    \* self.model.optimizer.learning_rate
    eval_res,         \* the local eval_res: metric name -> value
    last_eval_res,    \* self.last_eval_res, the deque of the callback
    error,            \* the exception that ended the run, "none" if none
    eval_log,         \* monitored outcome of each run_eval on the validation set
    n_eval,           \* number of run_eval calls
    n_save,           \* number of model.save_weights calls
    trace,            \* calls custom_fit made: batch loads, training steps, run_eval
    f_pc,             \* position of fit
    f_epoch,          \* fit: loop variable epoch
    f_step,           \* fit: the local step
    epoch_loss,       \* fit: the local epoch_loss
    f_losses,         \* fit: step losses self.train returned in the current epoch
    train_info,       \* fit: <<epoch_loss, step>>, the quotient reported as train_info
    f_trace,          \* calls fit made: batch loads, training steps, run_eval
    labels,           \* group_labels: argument labels
    preds,            \* group_labels: argument preds
    group_keys,       \* group_labels: argument group_keys
    grouped,          \* group_labels: the returned triple
    g_pc,             \* position of the group_labels call
    has_newsencoder,  \* hasattr(self, "newsencoder")
    has_userencoder,  \* hasattr(self, "userencoder")
    news_file,        \* rows <<news index, vector>> the news stream can emit
    user_file,        \* rows <<impression index, vector>> the user stream can emit
    self_news_vecs,   \* self.news_vecs
    self_user_vecs,   \* self.user_vecs
    e_pc,             \* position of run_fast_eval
    e_error,          \* the exception that ended run_fast_eval, "none" if none
    news_indexes,     \* run_news: the local news_indexes
    news_vec_list,    \* run_news: the local list news_vecs
    user_indexes,     \* run_user: the local user_indexes
    user_vec_list,    \* run_user: the local list user_vecs
    news_vecs,        \* run_fast_eval: the local news_vecs
    user_vecs,        \* run_fast_eval: the local user_vecs
    impr_seen,        \* records run_fast_eval took from the impression stream
    group_impr_indexes, \* run_fast_eval: the local group_impr_indexes
    e_group_labels,   \* run_fast_eval: the local group_labels
    e_group_preds,    \* run_fast_eval: the local group_preds
    s_pc,             \* position of run_slow_eval
    o_pc,             \* position of _get_opt
    lr,               \* _get_opt: the local lr
    optimizer_name,   \* _get_opt: the local optimizer_name, a sequence of characters
    OptimizerClass,   \* _get_opt: the name of the class getattr returned
    train_opt,        \* _get_opt: the optimizer constructed
    o_error           \* the exception that ended _get_opt, "none" if none

vars == <<hparams, n_batches, checkpoint_path, test_news_file, pc, epoch, step,
          learning_rate, eval_res, last_eval_res, error, eval_log, n_eval, n_save,
          trace, f_pc, f_epoch, f_step, epoch_loss, f_losses, train_info, f_trace,
          labels, preds, group_keys, grouped, g_pc,
          has_newsencoder, has_userencoder, news_file, user_file, self_news_vecs,
          self_user_vecs, e_pc, e_error, news_indexes, news_vec_list, user_indexes,
          user_vec_list, news_vecs, user_vecs, impr_seen, group_impr_indexes,
          e_group_labels, e_group_preds, s_pc,
          o_pc, lr, optimizer_name, OptimizerClass, train_opt, o_error>>

fit_vars == <<hparams, n_batches, checkpoint_path, test_news_file, pc, epoch, step,
              learning_rate, eval_res, last_eval_res, error, eval_log, n_eval, n_save,
              trace>>

fitloop_vars == <<f_pc, f_epoch, f_step, epoch_loss, f_losses, train_info, f_trace>>

group_vars == <<labels, preds, group_keys, grouped, g_pc>>

fast_vars == <<e_pc, e_error, self_news_vecs, self_user_vecs, news_indexes,
               news_vec_list, user_indexes, user_vec_list, news_vecs, user_vecs,
               impr_seen, group_impr_indexes, e_group_labels, e_group_preds>>

opt_vars == <<o_pc, lr, optimizer_name, OptimizerClass, train_opt, o_error>>

data_vars == <<has_newsencoder, has_userencoder, news_file, user_file>>

eval_vars == <<has_newsencoder, has_userencoder, news_file, user_file, self_news_vecs,
               self_user_vecs, e_pc, e_error, news_indexes, news_vec_list,
               user_indexes, user_vec_list, news_vecs, user_vecs, impr_seen,
               group_impr_indexes, e_group_labels, e_group_preds, s_pc>>

(***************************************************************************)
(* Bounds of the model.                                                    *)
(***************************************************************************)
MaxEpochs == 3
MaxBatches == 1
MaxPatience == 2
MaxValue == 2
MaxDelta == 2
BaseLearningRate == 10
MaxFactor == 2
MaxLen == 3
MaxKey == 2
MaxPred == 2
MaxPass == 3
MaxRows == 3
MaxCand == 2
MaxRate == 3

(***************************************************************************)
(* Inputs.                                                                 *)
(***************************************************************************)
Values == 0..MaxValue

Deltas == (0 - 1)..MaxDelta

\* hparams.metrics as cal_metric reports them, and the names a run may monitor
ReportedMetrics == {"group_auc"}

MetricNames == {"group_auc", "mean_mrr"}

\* fields of a disabled feature are never read: they get one fixed value
EarlyStoppingConfigs ==
    [use_early_stopping : {FALSE}, early_stopping_metric : {"group_auc"},
     early_stopping_patience : {1}, early_stopping_delta : {0},
     early_stopping_start_from_epoch : {1}]
    \cup
    [use_early_stopping : {TRUE}, early_stopping_metric : MetricNames,
     early_stopping_patience : 0..MaxPatience, early_stopping_delta : Deltas,
     early_stopping_start_from_epoch : 0..MaxEpochs]

FineStepConfigs ==
    [use_fine_step : {FALSE}, fine_step_from_epoch : {1}, fine_step_factor : {MaxFactor}]
    \cup
    [use_fine_step : {TRUE}, fine_step_from_epoch : 0..(MaxEpochs + 1),
     fine_step_factor : {MaxFactor}]

HParams ==
    { [epochs |-> e, learning_rate |-> BaseLearningRate, deactivate_eval |-> d,
       use_early_stopping |-> es.use_early_stopping,
       early_stopping_metric |-> es.early_stopping_metric,
       early_stopping_patience |-> es.early_stopping_patience,
       early_stopping_delta |-> es.early_stopping_delta,
       early_stopping_start_from_epoch |-> es.early_stopping_start_from_epoch,
       use_fine_step |-> fs.use_fine_step,
       fine_step_from_epoch |-> fs.fine_step_from_epoch,
       fine_step_factor |-> fs.fine_step_factor] :
      e \in 1..MaxEpochs, d \in BOOLEAN, es \in EarlyStoppingConfigs,
      fs \in FineStepConfigs }

(***************************************************************************)
(* Helpers of the early-stopping callback.                                 *)
(***************************************************************************)
Range(s) == { s[i] : i \in 1..Len(s) }

Min2(a, b) == IF a <= b THEN a ELSE b

\* the best (highest) value of the history taken instead of its lowest
MinAsMax(s) == CHOOSE m \in Range(s) : \A x \in Range(s) : m >= x

\* min(self.last_eval_res), defined on a non-empty deque only
Min(s) == CHOOSE m \in Range(s) : \A x \in Range(s) : m <= x

\* a reduction applied to the optimizer's current rate, which compounds
FineStepRateCompound == learning_rate * hparams.fine_step_factor

\* self.hparams.learning_rate * self.hparams.fine_step_factor
FineStepRate == hparams.learning_rate * hparams.fine_step_factor

\* the local eval_early_stopping of the current epoch
EvalEarlyStopping == eval_res[hparams.early_stopping_metric]

\* a guard that opens one epoch before early_stopping_start_from_epoch
GuardActiveEarly == epoch + 1 >= hparams.early_stopping_start_from_epoch

\* `epoch >= start_from_epoch and ...`: whether min() is evaluated at all
GuardActive == epoch >= hparams.early_stopping_start_from_epoch

\* the comparison turned round, as for a lower-is-better metric
PlateauFlipped == EvalEarlyStopping > Min(last_eval_res) + hparams.early_stopping_delta

\* the comparison without the tolerance
PlateauNoDelta == EvalEarlyStopping < Min(last_eval_res)

\* `eval_early_stopping < min(self.last_eval_res) + early_stopping_delta`
Plateau == EvalEarlyStopping < Min(last_eval_res) + hparams.early_stopping_delta

\* a plateau at the activation epoch itself taken as not yet fine tuning
StopsOnPlateauLate == IF hparams.use_fine_step
                      THEN epoch > hparams.fine_step_from_epoch
                      ELSE TRUE

\* a plateau that returns whatever the fine-step configuration
StopsOnPlateauAlways == TRUE

\* whether a plateau returns (TRUE) or goes to fine tuning (FALSE)
StopsOnPlateau == IF hparams.use_fine_step
                  THEN epoch >= hparams.fine_step_from_epoch
                  ELSE TRUE

\* `if len(...) >= patience: popleft()`, then `append(...)`
NeedsPop == Len(last_eval_res) >= hparams.early_stopping_patience

\* a deque that drops its newest entry (pop) instead of its oldest (popleft)
PushedLifo ==
    Append(IF NeedsPop THEN SubSeq(last_eval_res, 1, Len(last_eval_res) - 1)
                       ELSE last_eval_res,
           EvalEarlyStopping)

Pushed == Append(IF NeedsPop THEN Tail(last_eval_res) ELSE last_eval_res,
                 EvalEarlyStopping)

\* `if epoch == fine_step_from_epoch` at the head of epoch e
FineStepAt(e) == hparams.use_fine_step /\ e = hparams.fine_step_from_epoch

(***************************************************************************)
(* custom_fit.                                                             *)
(***************************************************************************)
\* the run_eval calls of one epoch: validation files, then test files
EvalCalls(e, valid, test) ==
    (IF valid THEN <<[call |-> "valid", epoch |-> e, step |-> 0]>> ELSE <<>>)
    \o (IF test THEN <<[call |-> "test", epoch |-> e, step |-> 0]>> ELSE <<>>)

InitFit ==
    /\ hparams \in HParams
    /\ n_batches \in 0..MaxBatches
    /\ checkpoint_path \in BOOLEAN
    /\ test_news_file \in BOOLEAN
    /\ pc = "for"
    /\ epoch = 0
    /\ step = 0
    /\ learning_rate = hparams.learning_rate
    /\ eval_res = [m \in {} |-> 0]
    /\ last_eval_res = <<>>
    /\ error = "none"
    /\ eval_log = <<>>
    /\ n_eval = 0
    /\ n_save = 0
    /\ trace = <<>>

IdleGroup ==
    /\ labels = <<>>
    /\ preds = <<>>
    /\ group_keys = <<>>
    /\ grouped = <<>>
    /\ g_pc = "idle"

\* fit is not running
IdleFitLoop ==
    /\ f_pc = "idle"
    /\ f_epoch = 0
    /\ f_step = 0
    /\ epoch_loss = 0
    /\ f_losses = <<>>
    /\ train_info = <<0, 0>>
    /\ f_trace = <<>>

\* a mapping with no entry
EmptyDict == [k \in {} |-> <<>>]

\* neither evaluation path is running
IdleEval ==
    /\ has_newsencoder = TRUE
    /\ has_userencoder = TRUE
    /\ news_file = {}
    /\ user_file = {}
    /\ self_news_vecs = EmptyDict
    /\ self_user_vecs = EmptyDict
    /\ e_pc = "idle"
    /\ e_error = "none"
    /\ news_indexes = <<>>
    /\ news_vec_list = <<>>
    /\ user_indexes = <<>>
    /\ user_vec_list = <<>>
    /\ news_vecs = EmptyDict
    /\ user_vecs = EmptyDict
    /\ impr_seen = <<>>
    /\ group_impr_indexes = <<>>
    /\ e_group_labels = <<>>
    /\ e_group_preds = <<>>
    /\ s_pc = "idle"

\* _get_opt is not running
IdleOpt ==
    /\ o_pc = "idle"
    /\ lr = 0
    /\ optimizer_name = <<>>
    /\ OptimizerClass = <<>>
    /\ train_opt = [class |-> <<>>, learning_rate |-> 0]
    /\ o_error = "none"

Init == InitFit /\ IdleGroup /\ IdleFitLoop /\ IdleEval /\ IdleOpt

Raise(e) ==
    /\ pc' = "failed"
    /\ error' = e

\* the head of the for loop: next epoch with the fine-step switch, or return self
BeginEpoch ==
    /\ pc = "for"
    /\ epoch < hparams.epochs
    /\ epoch' = epoch + 1
    /\ learning_rate' = IF FineStepAt(epoch + 1) THEN FineStepRate ELSE learning_rate
    /\ step' = 0
    /\ pc' = "train"
    /\ trace' = Append(trace, [call |-> "load", epoch |-> epoch + 1, step |-> 0])
    /\ UNCHANGED group_vars
    /\ UNCHANGED eval_vars
    /\ UNCHANGED opt_vars
    /\ UNCHANGED fitloop_vars
    /\ UNCHANGED <<hparams, n_batches, checkpoint_path, test_news_file, eval_res,
                   last_eval_res, error, eval_log, n_eval, n_save>>

Return ==
    /\ pc = "for"
    /\ epoch >= hparams.epochs
    /\ pc' = "returned"
    /\ trace' = trace
    /\ UNCHANGED group_vars
    /\ UNCHANGED eval_vars
    /\ UNCHANGED opt_vars
    /\ UNCHANGED fitloop_vars
    /\ UNCHANGED <<hparams, n_batches, checkpoint_path, test_news_file, epoch, step,
                   learning_rate, eval_res, last_eval_res, error, eval_log, n_eval,
                   n_save>>

\* one self.train(batch_data_input)
TrainStep ==
    /\ pc = "train"
    /\ step < n_batches
    /\ step' = step + 1
    /\ trace' = Append(trace, [call |-> "train", epoch |-> epoch, step |-> step + 1])
    /\ UNCHANGED group_vars
    /\ UNCHANGED eval_vars
    /\ UNCHANGED opt_vars
    /\ UNCHANGED fitloop_vars
    /\ UNCHANGED <<hparams, n_batches, checkpoint_path, test_news_file, pc, epoch,
                   learning_rate, eval_res, last_eval_res, error, eval_log, n_eval,
                   n_save>>

\* the batch sequence is exhausted: train_info divides epoch_loss by step
EndTrain ==
    /\ pc = "train"
    /\ step = n_batches
    /\ IF step = 0 THEN Raise("ZeroDivisionError")
                   ELSE pc' = "eval" /\ error' = error
    /\ trace' = trace
    /\ UNCHANGED group_vars
    /\ UNCHANGED eval_vars
    /\ UNCHANGED opt_vars
    /\ UNCHANGED fitloop_vars
    /\ UNCHANGED <<hparams, n_batches, checkpoint_path, test_news_file, epoch, step,
                   learning_rate, eval_res, last_eval_res, eval_log, n_eval, n_save>>

\* run_eval on the validation files unless deactivated, then on the test files
Evaluate ==
    /\ pc = "eval"
    /\ IF hparams.deactivate_eval
       THEN /\ eval_res' = eval_res
            /\ eval_log' = eval_log
       ELSE /\ eval_res' \in [ReportedMetrics -> Values]
            /\ eval_log' = Append(eval_log, eval_res')
    /\ n_eval' = n_eval + (IF hparams.deactivate_eval THEN 0 ELSE 1)
                        + (IF test_news_file THEN 1 ELSE 0)
    /\ pc' = "save"
    /\ trace' = trace \o EvalCalls(epoch, ~hparams.deactivate_eval, test_news_file)
    /\ UNCHANGED group_vars
    /\ UNCHANGED eval_vars
    /\ UNCHANGED opt_vars
    /\ UNCHANGED fitloop_vars
    /\ UNCHANGED <<hparams, n_batches, checkpoint_path, test_news_file, epoch, step,
                   learning_rate, last_eval_res, error, n_save>>

\* a save that does not look at checkpoint_path
CheckpointAlways ==
    /\ pc = "save"
    /\ n_save' = n_save + 1
    /\ pc' = "callback"
    /\ trace' = trace
    /\ UNCHANGED group_vars
    /\ UNCHANGED eval_vars
    /\ UNCHANGED opt_vars
    /\ UNCHANGED fitloop_vars
    /\ UNCHANGED <<hparams, n_batches, checkpoint_path, test_news_file, epoch, step,
                   learning_rate, eval_res, last_eval_res, error, eval_log, n_eval>>

\* automatically save last checkpoint
Checkpoint ==
    /\ pc = "save"
    /\ n_save' = IF checkpoint_path THEN n_save + 1 ELSE n_save
    /\ pc' = "callback"
    /\ trace' = trace
    /\ UNCHANGED group_vars
    /\ UNCHANGED eval_vars
    /\ UNCHANGED opt_vars
    /\ UNCHANGED fitloop_vars
    /\ UNCHANGED <<hparams, n_batches, checkpoint_path, test_news_file, epoch, step,
                   learning_rate, eval_res, last_eval_res, error, eval_log, n_eval>>

\* the history update that closes the callback
UpdateHistory ==
    IF NeedsPop /\ last_eval_res = <<>>
    THEN /\ Raise("IndexError")
         /\ last_eval_res' = last_eval_res
    ELSE /\ last_eval_res' = Pushed
         /\ pc' = "for"
         /\ error' = error

\* a fine-tuning switch that skips the history update of its epoch
OnPlateauNoUpdate ==
    IF StopsOnPlateau
    THEN /\ pc' = "stopped"
         /\ UNCHANGED <<learning_rate, last_eval_res, error>>
    ELSE /\ learning_rate' = FineStepRate
         /\ pc' = "for"
         /\ UNCHANGED <<last_eval_res, error>>

\* the plateau branch: return self, or switch to fine tuning and go on
OnPlateau ==
    IF StopsOnPlateau
    THEN /\ pc' = "stopped"
         /\ UNCHANGED <<learning_rate, last_eval_res, error>>
    ELSE /\ learning_rate' = FineStepRate
         /\ UpdateHistory

\* a lookup whose failure is swallowed and the epoch loop resumed
MissingMetricSwallowed ==
    /\ pc' = "for"
    /\ UNCHANGED <<learning_rate, last_eval_res, error>>

\* eval_res[early_stopping_metric] on a mapping without that key
MissingMetric ==
    /\ Raise("KeyError")
    /\ UNCHANGED <<learning_rate, last_eval_res>>

\* Early stopping callback
EarlyStopping ==
    /\ pc = "callback"
    /\ IF ~hparams.use_early_stopping
       THEN /\ pc' = "for"
            /\ UNCHANGED <<learning_rate, last_eval_res, error>>
       ELSE IF hparams.deactivate_eval
       THEN /\ Raise("UnboundLocalError")
            /\ UNCHANGED <<learning_rate, last_eval_res>>
       ELSE IF hparams.early_stopping_metric \notin DOMAIN eval_res
       THEN MissingMetric
       ELSE IF ~GuardActive
       THEN /\ UpdateHistory
            /\ learning_rate' = learning_rate
       ELSE IF last_eval_res = <<>>
       THEN /\ Raise("ValueError")
            /\ UNCHANGED <<learning_rate, last_eval_res>>
       ELSE IF Plateau
       THEN OnPlateau
       ELSE /\ UpdateHistory
            /\ learning_rate' = learning_rate
    /\ trace' = trace
    /\ UNCHANGED group_vars
    /\ UNCHANGED eval_vars
    /\ UNCHANGED opt_vars
    /\ UNCHANGED fitloop_vars
    /\ UNCHANGED <<hparams, n_batches, checkpoint_path, test_news_file, epoch, step,
                   eval_res, eval_log, n_eval, n_save>>

Next ==
    \/ BeginEpoch
    \/ Return
    \/ TrainStep
    \/ EndTrain
    \/ Evaluate
    \/ Checkpoint
    \/ EarlyStopping

Spec == Init /\ [][Next]_vars

(***************************************************************************)
(* fit, followed by custom_fit on the same files.                          *)
(***************************************************************************)
\* step losses train_on_batch may return, in tenths
Losses == {5, 7, 9}

\* an accumulation that keeps the last step loss only
AccumulateLast(total, l) == l

\* epoch_loss += step_data_loss
Accumulate(total, l) == total + l

\* hyperparameters with early stopping and fine-stepping absent
PlainHParams == { h \in HParams : ~h.use_early_stopping /\ ~h.use_fine_step }

InitBoth ==
    /\ hparams \in PlainHParams
    /\ n_batches \in 0..MaxPass
    /\ checkpoint_path = FALSE
    /\ test_news_file \in BOOLEAN
    /\ pc = "idle"
    /\ epoch = 0
    /\ step = 0
    /\ learning_rate = hparams.learning_rate
    /\ eval_res = [m \in {} |-> 0]
    /\ last_eval_res = <<>>
    /\ error = "none"
    /\ eval_log = <<>>
    /\ n_eval = 0
    /\ n_save = 0
    /\ trace = <<>>
    /\ f_pc = "for"
    /\ f_epoch = 0
    /\ f_step = 0
    /\ epoch_loss = 0
    /\ f_losses = <<>>
    /\ train_info = <<0, 0>>
    /\ f_trace = <<>>
    /\ IdleGroup
    /\ IdleEval
    /\ IdleOpt

\* the head of fit's for loop: a fresh batch sequence for the next epoch
FitBeginEpoch ==
    /\ f_pc = "for"
    /\ f_epoch < hparams.epochs
    /\ f_epoch' = f_epoch + 1
    /\ f_step' = 0
    /\ epoch_loss' = 0
    /\ f_losses' = <<>>
    /\ f_trace' = Append(f_trace, [call |-> "load", epoch |-> f_epoch + 1, step |-> 0])
    /\ f_pc' = "train"
    /\ UNCHANGED train_info
    /\ UNCHANGED fit_vars
    /\ UNCHANGED group_vars
    /\ UNCHANGED eval_vars
    /\ UNCHANGED opt_vars

FitReturn ==
    /\ f_pc = "for"
    /\ f_epoch >= hparams.epochs
    /\ f_pc' = "returned"
    /\ UNCHANGED <<f_epoch, f_step, epoch_loss, f_losses, train_info, f_trace>>
    /\ UNCHANGED fit_vars
    /\ UNCHANGED group_vars
    /\ UNCHANGED eval_vars
    /\ UNCHANGED opt_vars

\* one self.train(batch_data_input) and its loss
FitTrainStep ==
    /\ f_pc = "train"
    /\ f_step < n_batches
    /\ \E l \in Losses :
          /\ epoch_loss' = Accumulate(epoch_loss, l)
          /\ f_losses' = Append(f_losses, l)
    /\ f_step' = f_step + 1
    /\ f_trace' = Append(f_trace, [call |-> "train", epoch |-> f_epoch, step |-> f_step + 1])
    /\ UNCHANGED <<f_pc, f_epoch, train_info>>
    /\ UNCHANGED fit_vars
    /\ UNCHANGED group_vars
    /\ UNCHANGED eval_vars
    /\ UNCHANGED opt_vars

\* the batch sequence is exhausted: train_info is epoch_loss / step
FitEndTrain ==
    /\ f_pc = "train"
    /\ f_step = n_batches
    /\ IF f_step = 0
       THEN /\ f_pc' = "failed"
            /\ train_info' = train_info
       ELSE /\ f_pc' = "eval"
            /\ train_info' = <<epoch_loss, f_step>>
    /\ UNCHANGED <<f_epoch, f_step, epoch_loss, f_losses, f_trace>>
    /\ UNCHANGED fit_vars
    /\ UNCHANGED group_vars
    /\ UNCHANGED eval_vars
    /\ UNCHANGED opt_vars

\* an evaluation pass that takes the test files first
FitEvaluateSwapped ==
    /\ f_pc = "eval"
    /\ f_trace' = f_trace
                  \o (IF test_news_file
                      THEN <<[call |-> "test", epoch |-> f_epoch, step |-> 0]>>
                      ELSE <<>>)
                  \o <<[call |-> "valid", epoch |-> f_epoch, step |-> 0]>>
    /\ f_pc' = "for"
    /\ UNCHANGED <<f_epoch, f_step, epoch_loss, f_losses, train_info>>
    /\ UNCHANGED fit_vars
    /\ UNCHANGED group_vars
    /\ UNCHANGED eval_vars
    /\ UNCHANGED opt_vars

\* run_eval on the validation files, then on the test files if given
FitEvaluate ==
    /\ f_pc = "eval"
    /\ f_trace' = f_trace \o EvalCalls(f_epoch, TRUE, test_news_file)
    /\ f_pc' = "for"
    /\ UNCHANGED <<f_epoch, f_step, epoch_loss, f_losses, train_info>>
    /\ UNCHANGED fit_vars
    /\ UNCHANGED group_vars
    /\ UNCHANGED eval_vars
    /\ UNCHANGED opt_vars

\* the caller goes on to custom_fit once fit is over
CallCustomFit ==
    /\ f_pc \in {"returned", "failed"}
    /\ pc = "idle"
    /\ pc' = "for"
    /\ UNCHANGED <<hparams, n_batches, checkpoint_path, test_news_file, epoch, step,
                   learning_rate, eval_res, last_eval_res, error, eval_log, n_eval,
                   n_save, trace>>
    /\ UNCHANGED fitloop_vars
    /\ UNCHANGED group_vars
    /\ UNCHANGED eval_vars
    /\ UNCHANGED opt_vars

NextBoth ==
    \/ FitBeginEpoch
    \/ FitTrainStep
    \/ FitEndTrain
    \/ FitEvaluate
    \/ FitReturn
    \/ CallCustomFit
    \/ BeginEpoch
    \/ TrainStep
    \/ EndTrain
    \/ Evaluate
    \/ Checkpoint
    \/ EarlyStopping
    \/ Return

SpecFit == InitBoth /\ [][NextBoth]_vars

(***************************************************************************)
(* group_labels.                                                           *)
(***************************************************************************)
SeqsOf(S, n) == [1..n -> S]

RECURSIVE Ascending(_)
\* list.sort() on the list of a set
Ascending(S) ==
    IF S = {} THEN <<>>
    ELSE LET m == CHOOSE x \in S : \A y \in S : x <= y
         IN  <<m>> \o Ascending(S \ {m})

RECURSIVE Descending(_)
\* the keys sorted the wrong way round
Descending(S) ==
    IF S = {} THEN <<>>
    ELSE LET m == CHOOSE x \in S : \A y \in S : x >= y
         IN  <<m>> \o Descending(S \ {m})

AllKeysDescending(ks) == Descending(Range(ks))

\* all_keys = list(set(group_keys)); all_keys.sort()
AllKeys(ks) == Ascending(Range(ks))

RECURSIVE Fill(_, _, _, _, _)
\* the zip loop from element i to element n: d[k].append(x)
Fill(d, xs, ks, i, n) ==
    IF i > n THEN d
    ELSE Fill([d EXCEPT ![ks[i]] = Append(@, xs[i])], xs, ks, i + 1, n)

\* group_labels(labels, preds, group_keys)
GroupLabels(ls, ps, ks) ==
    LET all_keys == AllKeys(ks)
        n == Min2(Len(ls), Min2(Len(ps), Len(ks)))
        empty == [k \in Range(ks) |-> <<>>]
        group_labels == Fill(empty, ls, ks, 1, n)
        group_preds == Fill(empty, ps, ks, 1, n)
    IN  << all_keys,
           [i \in 1..Len(all_keys) |-> group_labels[all_keys[i]]],
           [i \in 1..Len(all_keys) |-> group_preds[all_keys[i]]] >>

\* custom_fit is not running
IdleFit ==
    /\ hparams = [epochs |-> 0]
    /\ n_batches = 0
    /\ checkpoint_path = FALSE
    /\ test_news_file = FALSE
    /\ pc = "idle"
    /\ epoch = 0
    /\ step = 0
    /\ learning_rate = 0
    /\ eval_res = <<>>
    /\ last_eval_res = <<>>
    /\ error = "none"
    /\ eval_log = <<>>
    /\ n_eval = 0
    /\ n_save = 0
    /\ trace = <<>>

\* parallel sequences of one length, as run_slow_eval builds them
InitGroup ==
    /\ IdleFit
    /\ IdleFitLoop
    /\ IdleEval
    /\ IdleOpt
    /\ \E n \in 0..MaxLen :
          /\ labels \in SeqsOf({0, 1}, n)
          /\ preds \in SeqsOf(0..MaxPred, n)
          /\ group_keys \in SeqsOf(1..MaxKey, n)
    /\ grouped = <<>>
    /\ g_pc = "call"

CallGroupLabels ==
    /\ g_pc = "call"
    /\ grouped' = GroupLabels(labels, preds, group_keys)
    /\ g_pc' = "done"
    /\ UNCHANGED <<labels, preds, group_keys>>
    /\ UNCHANGED fit_vars
    /\ UNCHANGED fitloop_vars
    /\ UNCHANGED eval_vars
    /\ UNCHANGED opt_vars

NextGroup == CallGroupLabels

SpecGroup == InitGroup /\ [][NextGroup]_vars

(***************************************************************************)
(* run_fast_eval, followed by run_slow_eval on the same files.             *)
(***************************************************************************)
NewsIndexes == {10, 11}
ImprIndexes == {0, 1}
UserIndexes == {0}
NewsVecs == { <<1, 0>>, <<0, 1>> }
UserVecs == { <<2, 3>>, <<1, 1>> }

\* a news file lists at least one news; a file may list an index twice
NewsFiles == (SUBSET (NewsIndexes \X NewsVecs)) \ {{}}
UserFiles == SUBSET (ImprIndexes \X UserVecs)

\* the indices a file lists
Indexes(F) == { r[1] : r \in F }

\* self.news_vecs and self.user_vecs as an earlier call on other files left them
StoredBefore ==
    { <<EmptyDict, EmptyDict>>,
      << (10 :> <<1, 1>>) @@ (12 :> <<1, 1>>), (0 :> <<0, 0>>) @@ (2 :> <<0, 0>>) >> }

RECURSIVE FirstUpTo(_, _, _)
FirstUpTo(ks, vs, n) ==
    IF n = 0 THEN EmptyDict ELSE FirstUpTo(ks, vs, n - 1) @@ (ks[n] :> vs[n])

\* a mapping that keeps the first vector of an index
ZipFirstWins(ks, vs) == FirstUpTo(ks, vs, Min2(Len(ks), Len(vs)))

RECURSIVE ZipUpTo(_, _, _)
\* the first n pairs of zip(ks, vs) inserted in order: a later pair replaces
ZipUpTo(ks, vs, n) ==
    IF n = 0 THEN EmptyDict ELSE (ks[n] :> vs[n]) @@ ZipUpTo(ks, vs, n - 1)

\* dict(zip(ks, vs))
Zip(ks, vs) == ZipUpTo(ks, vs, Min2(Len(ks), Len(vs)))

RECURSIVE DotFrom(_, _, _)
DotFrom(u, v, i) == IF i > Len(u) THEN 0 ELSE u[i] * v[i] + DotFrom(u, v, i + 1)

\* np.dot of two vectors
Dot(u, v) == DotFrom(u, v, 1)

\* a product that scores every row as the first
MatVecFirstRow(m, v) == [j \in 1..Len(m) |-> Dot(m[1], v)]

\* np.dot of a stack of vectors and a vector
MatVec(m, v) == [j \in 1..Len(m) |-> Dot(m[j], v)]

\* the candidates stacked last to first
NewsStackReversed(rec) ==
    [j \in 1..Len(rec.news_index) |->
        news_vecs[rec.news_index[Len(rec.news_index) + 1 - j]]]

\* np.stack([news_vecs[i] for i in news_index], axis=0)
NewsStack(rec) == [j \in 1..Len(rec.news_index) |-> news_vecs[rec.news_index[j]]]

\* user_vecs[impr_index]
UserVec(rec) == user_vecs[rec.impr_index]

\* pred of one impression record
Pred(rec) == MatVec(NewsStack(rec), UserVec(rec))

\* candidate lists of an impression: news of the news file
CandidateLists == UNION { SeqsOf(Indexes(news_file), n) : n \in 1..MaxCand }

\* label lists of n candidates: one click, on the first or the last candidate
LabelLists(n) ==
    { [j \in 1..n |-> IF j = 1 THEN 1 ELSE 0], [j \in 1..n |-> IF j = n THEN 1 ELSE 0] }

\* impressions of the behaviors file not yet emitted
ImpressionsLeft == Indexes(user_file) \ { impr_seen[k].impr_index : k \in 1..Len(impr_seen) }

\* each index of a file is listed with one vector
Functional(F) == \A r \in F : \A q \in F : r[1] = q[1] => r = q

\* the encoders' vectors of a news and of an impression's user
NewsEncoder(c) == CHOOSE v \in NewsVecs : <<c, v>> \in news_file
UserEncoder(i) == CHOOSE v \in UserVecs : <<i, v>> \in user_file

\* the scorer of the premise: the dot product of the two encoder vectors
Scorer(c, i) == Dot(NewsEncoder(c), UserEncoder(i))

RECURSIVE SlowRows(_)
\* load_data_from_file: one row per candidate of each impression, in file order
SlowRows(recs) ==
    IF recs = <<>> THEN <<>>
    ELSE LET rec == Head(recs)
         IN  [j \in 1..Len(rec.news_index) |->
                 [pred |-> Scorer(rec.news_index[j], rec.impr_index),
                  label |-> rec.label[j],
                  imp_index |-> rec.impr_index]]
             \o SlowRows(Tail(recs))

\* cal_metric: every metric is a mean over the groups, so a function of how
\* often each (label list, prediction list) pair occurs among them
CalMetric(gl, gp) ==
    LET n == Min2(Len(gl), Len(gp))
        pairs == { <<gl[k], gp[k]>> : k \in 1..n }
    IN  [g \in pairs |-> Cardinality({ k \in 1..n : <<gl[k], gp[k]>> = g })]

\* run_eval once the path chosen by support_quick_scoring has returned
RunEval(support_quick_scoring) ==
    IF support_quick_scoring
    THEN CalMetric(e_group_labels, e_group_preds)
    ELSE CalMetric(grouped[2], grouped[3])

InitEval ==
    /\ IdleFit
    /\ IdleFitLoop
    /\ IdleGroup
    /\ IdleOpt
    /\ has_newsencoder \in BOOLEAN
    /\ has_userencoder \in BOOLEAN
    /\ news_file \in NewsFiles
    /\ user_file \in UserFiles
    /\ \E before \in StoredBefore :
          /\ self_news_vecs = before[1]
          /\ self_user_vecs = before[2]
    /\ e_pc = "run_news"
    /\ e_error = "none"
    /\ news_indexes = <<>>
    /\ news_vec_list = <<>>
    /\ user_indexes = <<>>
    /\ user_vec_list = <<>>
    /\ news_vecs = EmptyDict
    /\ user_vecs = EmptyDict
    /\ impr_seen = <<>>
    /\ group_impr_indexes = <<>>
    /\ e_group_labels = <<>>
    /\ e_group_preds = <<>>
    /\ s_pc = "idle"

\* what no action of run_fast_eval touches
EvalRest ==
    /\ UNCHANGED data_vars
    /\ UNCHANGED s_pc
    /\ UNCHANGED group_vars
    /\ UNCHANGED fit_vars
    /\ UNCHANGED fitloop_vars
    /\ UNCHANGED opt_vars

\* run_news: the hasattr check, then the empty lists
RunNewsBegin ==
    /\ e_pc = "run_news"
    /\ IF has_newsencoder
       THEN /\ e_pc' = "news"
            /\ e_error' = e_error
       ELSE /\ e_pc' = "failed"
            /\ e_error' = "ValueError"
    /\ news_indexes' = <<>>
    /\ news_vec_list' = <<>>
    /\ UNCHANGED <<self_news_vecs, self_user_vecs, user_indexes, user_vec_list,
                   news_vecs, user_vecs, impr_seen, group_impr_indexes,
                   e_group_labels, e_group_preds>>
    /\ EvalRest

\* one batch of the news stream through self.news
NewsBatch ==
    /\ e_pc = "news"
    /\ Len(news_indexes) < MaxRows
    /\ \E row \in news_file :
          /\ news_indexes' = Append(news_indexes, row[1])
          /\ news_vec_list' = Append(news_vec_list, row[2])
    /\ UNCHANGED <<e_pc, e_error, self_news_vecs, self_user_vecs, user_indexes,
                   user_vec_list, news_vecs, user_vecs, impr_seen,
                   group_impr_indexes, e_group_labels, e_group_preds>>
    /\ EvalRest

\* the news stream is exhausted: run_news returns the mapping
RunNewsReturn ==
    /\ e_pc = "news"
    /\ Indexes(news_file) \subseteq Range(news_indexes)
    /\ news_vecs' = Zip(news_indexes, news_vec_list)
    /\ e_pc' = "run_user"
    /\ UNCHANGED <<e_error, self_news_vecs, self_user_vecs, news_indexes,
                   news_vec_list, user_indexes, user_vec_list, user_vecs, impr_seen,
                   group_impr_indexes, e_group_labels, e_group_preds>>
    /\ EvalRest

\* a run_user that stores the news mapping before its check
RunUserBeginStoring ==
    /\ e_pc = "run_user"
    /\ IF has_userencoder
       THEN /\ e_pc' = "users"
            /\ e_error' = e_error
       ELSE /\ e_pc' = "failed"
            /\ e_error' = "ValueError"
    /\ self_news_vecs' = news_vecs
    /\ news_indexes' = <<>>
    /\ news_vec_list' = <<>>
    /\ user_indexes' = <<>>
    /\ user_vec_list' = <<>>
    /\ UNCHANGED <<self_user_vecs, news_vecs, user_vecs, impr_seen,
                   group_impr_indexes, e_group_labels, e_group_preds>>
    /\ EvalRest

\* run_user: the hasattr check, then the empty lists; run_news's locals are gone
RunUserBegin ==
    /\ e_pc = "run_user"
    /\ IF has_userencoder
       THEN /\ e_pc' = "users"
            /\ e_error' = e_error
       ELSE /\ e_pc' = "failed"
            /\ e_error' = "ValueError"
    /\ news_indexes' = <<>>
    /\ news_vec_list' = <<>>
    /\ user_indexes' = <<>>
    /\ user_vec_list' = <<>>
    /\ UNCHANGED <<self_news_vecs, self_user_vecs, news_vecs, user_vecs, impr_seen,
                   group_impr_indexes, e_group_labels, e_group_preds>>
    /\ EvalRest

\* one batch of the user stream through self.user
UserBatch ==
    /\ e_pc = "users"
    /\ Len(user_indexes) < MaxRows
    /\ \E row \in user_file :
          /\ user_indexes' = Append(user_indexes, row[1])
          /\ user_vec_list' = Append(user_vec_list, row[2])
    /\ UNCHANGED <<e_pc, e_error, self_news_vecs, self_user_vecs, news_indexes,
                   news_vec_list, news_vecs, user_vecs, impr_seen,
                   group_impr_indexes, e_group_labels, e_group_preds>>
    /\ EvalRest

\* the user stream is exhausted: run_user returns the mapping
RunUserReturn ==
    /\ e_pc = "users"
    /\ Indexes(user_file) \subseteq Range(user_indexes)
    /\ user_vecs' = Zip(user_indexes, user_vec_list)
    /\ e_pc' = "store"
    /\ UNCHANGED <<e_error, self_news_vecs, self_user_vecs, news_indexes,
                   news_vec_list, user_indexes, user_vec_list, news_vecs, impr_seen,
                   group_impr_indexes, e_group_labels, e_group_preds>>
    /\ EvalRest

\* self.news_vecs = news_vecs; self.user_vecs = user_vecs; the empty result lists
StoreVecs ==
    /\ e_pc = "store"
    /\ self_news_vecs' = news_vecs
    /\ self_user_vecs' = user_vecs
    /\ user_indexes' = <<>>
    /\ user_vec_list' = <<>>
    /\ group_impr_indexes' = <<>>
    /\ e_group_labels' = <<>>
    /\ e_group_preds' = <<>>
    /\ e_pc' = "impressions"
    /\ UNCHANGED <<e_error, news_indexes, news_vec_list, news_vecs, user_vecs,
                   impr_seen>>
    /\ EvalRest

\* one record of the impression stream
Impression ==
    /\ e_pc = "impressions"
    /\ \E i \in ImpressionsLeft, c \in CandidateLists, u \in UserIndexes :
          \E l \in LabelLists(Len(c)) :
             LET rec == [impr_index |-> i, news_index |-> c, user_index |-> u,
                         label |-> l]
             IN  /\ impr_seen' = Append(impr_seen, rec)
                 /\ group_impr_indexes' = Append(group_impr_indexes, rec.impr_index)
                 /\ e_group_labels' = Append(e_group_labels, rec.label)
                 /\ e_group_preds' = Append(e_group_preds, Pred(rec))
    /\ UNCHANGED <<e_pc, e_error, self_news_vecs, self_user_vecs, news_indexes,
                   news_vec_list, user_indexes, user_vec_list, news_vecs, user_vecs>>
    /\ EvalRest

\* the impression stream is exhausted: return the three lists
FastReturn ==
    /\ e_pc = "impressions"
    /\ ImpressionsLeft = {}
    /\ e_pc' = "returned"
    /\ UNCHANGED <<e_error, self_news_vecs, self_user_vecs, news_indexes,
                   news_vec_list, user_indexes, user_vec_list, news_vecs, user_vecs,
                   impr_seen, group_impr_indexes, e_group_labels, e_group_preds>>
    /\ EvalRest

\* what no action of run_slow_eval touches
SlowRest ==
    /\ UNCHANGED data_vars
    /\ UNCHANGED fast_vars
    /\ UNCHANGED fit_vars
    /\ UNCHANGED fitloop_vars
    /\ UNCHANGED opt_vars

\* the caller evaluates the same files by the slow path
CallSlowEval ==
    /\ e_pc = "returned"
    /\ s_pc = "idle"
    /\ Functional(news_file)
    /\ Functional(user_file)
    /\ s_pc' = "rows"
    /\ labels' = <<>>
    /\ preds' = <<>>
    /\ group_keys' = <<>>
    /\ UNCHANGED <<grouped, g_pc>>
    /\ SlowRest

\* one batch of the test stream through self.eval
SlowBatch ==
    /\ s_pc = "rows"
    /\ Len(labels) < Len(SlowRows(impr_seen))
    /\ LET row == SlowRows(impr_seen)[Len(labels) + 1]
       IN  /\ preds' = Append(preds, row.pred)
           /\ labels' = Append(labels, row.label)
           /\ group_keys' = Append(group_keys, row.imp_index)
    /\ UNCHANGED <<grouped, g_pc, s_pc>>
    /\ SlowRest

\* the test stream is exhausted: call self.group_labels
SlowGroup ==
    /\ s_pc = "rows"
    /\ Len(labels) = Len(SlowRows(impr_seen))
    /\ s_pc' = "group"
    /\ g_pc' = "call"
    /\ UNCHANGED <<labels, preds, group_keys, grouped>>
    /\ SlowRest

\* run_slow_eval returns what group_labels returned
SlowReturn ==
    /\ s_pc = "group"
    /\ g_pc = "done"
    /\ s_pc' = "returned"
    /\ UNCHANGED group_vars
    /\ SlowRest

NextEval ==
    \/ RunNewsBegin
    \/ NewsBatch
    \/ RunNewsReturn
    \/ RunUserBegin
    \/ UserBatch
    \/ RunUserReturn
    \/ StoreVecs
    \/ Impression
    \/ FastReturn
    \/ CallSlowEval
    \/ SlowBatch
    \/ SlowGroup
    \/ CallGroupLabels
    \/ SlowReturn

SpecEval == InitEval /\ [][NextEval]_vars

(***************************************************************************)
(* _get_opt.  Names are sequences of characters, so that str.lower and     *)
(* str.capitalize act on them as they do on Python strings.                *)
(***************************************************************************)
LowerCase == << "a", "b", "c", "d", "e", "f", "g", "h", "i", "j", "k", "l", "m",
                "n", "o", "p", "q", "r", "s", "t", "u", "v", "w", "x", "y", "z" >>
UpperCase == << "A", "B", "C", "D", "E", "F", "G", "H", "I", "J", "K", "L", "M",
                "N", "O", "P", "Q", "R", "S", "T", "U", "V", "W", "X", "Y", "Z" >>

\* one character in lower case, in upper case
ToLower(c) ==
    IF \E i \in 1..Len(UpperCase) : UpperCase[i] = c
    THEN LowerCase[CHOOSE i \in 1..Len(UpperCase) : UpperCase[i] = c]
    ELSE c

ToUpper(c) ==
    IF \E i \in 1..Len(LowerCase) : LowerCase[i] = c
    THEN UpperCase[CHOOSE i \in 1..Len(LowerCase) : LowerCase[i] = c]
    ELSE c

\* str.lower()
Lower(name) == [i \in 1..Len(name) |-> ToLower(name[i])]

\* str.capitalize(): the first character in upper case, the others in lower case
Capitalize(name) ==
    [i \in 1..Len(name) |-> IF i = 1 THEN ToUpper(name[i]) ELSE ToLower(name[i])]

\* values of hparams.optimizer
OptimizerNames ==
    { <<"a", "d", "a", "m">>, <<"A", "d", "a", "m">>, <<"A", "D", "A", "M">>,
      <<"s", "g", "d">>, <<"S", "G", "D">>, <<"S", "g", "d">>,
      <<"r", "m", "s", "p", "r", "o", "p">>, <<"R", "M", "S", "p", "r", "o", "p">>,
      <<"a", "d", "a", "m", "w">>, <<"A", "d", "a", "m", "W">>,
      <<"a", "d", "a", "g", "r", "a", "d">>, <<"n", "a", "d", "a", "m">>,
      <<"l", "a", "m", "b">> }

\* the local opt_dict
opt_dict ==
    (<<"r", "m", "s", "p", "r", "o", "p">> :> <<"R", "M", "S", "p", "r", "o", "p">>)
    @@ (<<"s", "g", "d">> :> <<"S", "G", "D">>)
    @@ (<<"a", "d", "a", "m", "w">> :> <<"A", "d", "a", "m", "W">>)

\* the optimizer classes that are attributes of keras.optimizers
KerasOptimizers ==
    { <<"A", "d", "a", "m">>, <<"S", "G", "D">>,
      <<"R", "M", "S", "p", "r", "o", "p">>, <<"A", "d", "a", "m", "W">>,
      <<"A", "d", "a", "g", "r", "a", "d">>, <<"N", "a", "d", "a", "m">>,
      <<"A", "d", "a", "d", "e", "l", "t", "a">>, <<"A", "d", "a", "m", "a", "x">>,
      <<"F", "t", "r", "l">> }

InitOpt ==
    /\ \E name \in OptimizerNames, rate \in 1..MaxRate :
          hparams = [optimizer |-> name, learning_rate |-> rate]
    /\ n_batches = 0
    /\ checkpoint_path = FALSE
    /\ test_news_file = FALSE
    /\ pc = "idle"
    /\ epoch = 0
    /\ step = 0
    /\ learning_rate = 0
    /\ eval_res = <<>>
    /\ last_eval_res = <<>>
    /\ error = "none"
    /\ eval_log = <<>>
    /\ n_eval = 0
    /\ n_save = 0
    /\ trace = <<>>
    /\ IdleFitLoop
    /\ IdleGroup
    /\ IdleEval
    /\ o_pc = "read"
    /\ lr = 0
    /\ optimizer_name = <<>>
    /\ OptimizerClass = <<>>
    /\ train_opt = [class |-> <<>>, learning_rate |-> 0]
    /\ o_error = "none"

\* what no action of _get_opt touches
OptRest ==
    /\ UNCHANGED fit_vars
    /\ UNCHANGED fitloop_vars
    /\ UNCHANGED group_vars
    /\ UNCHANGED eval_vars

\* lr = self.hparams.learning_rate; optimizer_name = self.hparams.optimizer.lower()
OptRead ==
    /\ o_pc = "read"
    /\ lr' = hparams.learning_rate
    /\ optimizer_name' = Lower(hparams.optimizer)
    /\ o_pc' = "lookup"
    /\ UNCHANGED <<OptimizerClass, train_opt, o_error>>
    /\ OptRest

\* if optimizer_name in opt_dict: optimizer_name = opt_dict[optimizer_name]
OptLookup ==
    /\ o_pc = "lookup"
    /\ optimizer_name' = IF optimizer_name \in DOMAIN opt_dict
                         THEN opt_dict[optimizer_name]
                         ELSE optimizer_name
    /\ o_pc' = "getattr"
    /\ UNCHANGED <<lr, OptimizerClass, train_opt, o_error>>
    /\ OptRest

\* OptimizerClass = getattr(keras.optimizers, optimizer_name.capitalize())
OptGetattr ==
    /\ o_pc = "getattr"
    /\ IF Capitalize(optimizer_name) \in KerasOptimizers
       THEN /\ OptimizerClass' = Capitalize(optimizer_name)
            /\ o_pc' = "construct"
            /\ o_error' = o_error
       ELSE /\ OptimizerClass' = OptimizerClass
            /\ o_pc' = "failed"
            /\ o_error' = "AttributeError"
    /\ UNCHANGED <<lr, optimizer_name, train_opt>>
    /\ OptRest

\* train_opt = OptimizerClass(learning_rate = lr); return train_opt
OptConstruct ==
    /\ o_pc = "construct"
    /\ train_opt' = [class |-> OptimizerClass, learning_rate |-> lr]
    /\ o_pc' = "returned"
    /\ UNCHANGED <<lr, optimizer_name, OptimizerClass, o_error>>
    /\ OptRest

NextOpt ==
    \/ OptRead
    \/ OptLookup
    \/ OptGetattr
    \/ OptConstruct

SpecOpt == InitOpt /\ [][NextOpt]_vars

(***************************************************************************)
(* Vocabulary of the properties of custom_fit.                             *)
(***************************************************************************)
\* the monitored metric is among the metrics run_eval reports
MetricReported == hparams.early_stopping_metric \in ReportedMetrics

\* the monitored value run_eval produced in epoch i
Monitored(i) == eval_log[i][hparams.early_stopping_metric]

\* the callback is about to run with a monitored value at hand
InCallback ==
    /\ pc = "callback"
    /\ hparams.use_early_stopping
    /\ ~hparams.deactivate_eval
    /\ hparams.early_stopping_metric \in DOMAIN eval_res

Current == eval_res[hparams.early_stopping_metric]

\* current < min(history) + delta at an epoch >= start_from_epoch
PlateauGuardHolds ==
    /\ InCallback
    /\ epoch >= hparams.early_stopping_start_from_epoch
    /\ last_eval_res # <<>>
    /\ \E i \in 1..Len(last_eval_res) :
          /\ \A j \in 1..Len(last_eval_res) : last_eval_res[i] <= last_eval_res[j]
          /\ Current < last_eval_res[i] + hparams.early_stopping_delta

\* the history after the update of the code's comment: drop the oldest, append
HistoryAfterUpdate ==
    Append(IF Len(last_eval_res) >= hparams.early_stopping_patience
           THEN Tail(last_eval_res) ELSE last_eval_res,
           Current)

\* the metric rose from each evaluated epoch to the next
StrictlyIncreasing ==
    \A i \in 1..(Len(eval_log) - 1) : Monitored(i) < Monitored(i + 1)

\* epochs whose callback ran to its end without stopping the run
Completed == IF pc \in {"for", "returned"} THEN epoch ELSE epoch - 1

\* the guard of epoch e, recomputed from the values of the epochs before it
GuardAt(e) ==
    /\ e >= hparams.early_stopping_start_from_epoch
    /\ e >= 2
    /\ LET k == Min2(e - 1, hparams.early_stopping_patience)
       IN  \E i \in (e - k)..(e - 1) :
              /\ \A j \in (e - k)..(e - 1) : Monitored(i) <= Monitored(j)
              /\ Monitored(e) < Monitored(i) + hparams.early_stopping_delta

\* the history is full and every value in it equals the current one
ConstantOverHistory ==
    /\ Len(last_eval_res) = hparams.early_stopping_patience
    /\ last_eval_res # <<>>
    /\ \A i \in 1..Len(last_eval_res) : last_eval_res[i] = Current

(***************************************************************************)
(* C1: when the plateau guard holds at an epoch >= start_from_epoch and    *)
(* fine-stepping is disabled or the epoch is >= fine_step_from_epoch, the  *)
(* callback returns the model at that epoch without an exception, and      *)
(* nothing (training step, evaluation, history update) happens afterwards. *)
(***************************************************************************)
C1_StopOnPlateau ==
    [][ /\ (PlateauGuardHolds
              /\ (~hparams.use_fine_step \/ epoch >= hparams.fine_step_from_epoch))
           => /\ pc' = "stopped"
              /\ error' = "none"
              /\ epoch' = epoch
              /\ last_eval_res' = last_eval_res
        /\ pc = "stopped" => UNCHANGED vars ]_vars

C1_Witness == pc = "stopped" /\ error = "none" /\ epoch < hparams.epochs

(***************************************************************************)
(* C2 as stated: for any delta, a strictly increasing monitored metric     *)
(* never lets the stopping policy stop the run.                            *)
(***************************************************************************)
C2_Original ==
    (hparams.use_early_stopping /\ MetricReported /\ StrictlyIncreasing)
    => pc # "stopped"

(***************************************************************************)
(* C2 amended: with early_stopping_delta <= 0 a strictly increasing        *)
(* monitored metric never makes the guard hold: the run is never stopped   *)
(* by the policy and the learning rate is only ever switched by the        *)
(* unconditional trigger of epoch == fine_step_from_epoch; with            *)
(* start_from_epoch >= 2, patience >= 1 and a non-empty training pass the  *)
(* run raises nothing and returns only after all hparams.epochs epochs.    *)
(***************************************************************************)
C2_NoStopWhileIncreasing ==
    (/\ hparams.use_early_stopping
     /\ MetricReported
     /\ hparams.early_stopping_delta <= 0
     /\ StrictlyIncreasing)
    => /\ pc # "stopped"
       /\ learning_rate # hparams.learning_rate
            => /\ hparams.use_fine_step
               /\ hparams.fine_step_from_epoch \in 1..epoch
       /\ (/\ hparams.early_stopping_start_from_epoch >= 2
           /\ hparams.early_stopping_patience >= 1
           /\ n_batches >= 1
           /\ ~hparams.deactivate_eval)
            => /\ error = "none"
               /\ pc = "returned" => epoch = hparams.epochs

C2_Witness ==
    /\ pc = "returned"
    /\ hparams.use_early_stopping
    /\ MetricReported
    /\ hparams.early_stopping_delta <= 0
    /\ hparams.early_stopping_start_from_epoch = 2
    /\ hparams.epochs >= 3
    /\ Len(eval_log) = hparams.epochs
    /\ StrictlyIncreasing

(***************************************************************************)
(* C3: the stopping history never holds more than early_stopping_patience  *)
(* values, and it holds, in epoch order, exactly the monitored values of   *)
(* the last min(n, patience) of the n epochs completed without stopping.   *)
(***************************************************************************)
C3_HistoryFifo ==
    hparams.use_early_stopping
    => /\ Len(last_eval_res) <= hparams.early_stopping_patience
       /\ LET k == Min2(Completed, hparams.early_stopping_patience)
          IN  /\ Len(last_eval_res) = k
              /\ \A i \in 1..k : last_eval_res[i] = Monitored(Completed - k + i)

C3_Witness ==
    /\ hparams.use_early_stopping
    /\ hparams.early_stopping_patience >= 2
    /\ pc = "for"
    /\ epoch = hparams.early_stopping_patience + 1
    /\ Len(last_eval_res) = hparams.early_stopping_patience
    /\ \A i \in 1..Len(last_eval_res) : last_eval_res[i] # Monitored(1)

(***************************************************************************)
(* C4: with early stopping and fine-stepping enabled, a plateau at an      *)
(* epoch >= start_from_epoch and < fine_step_from_epoch does not stop the  *)
(* run: the learning rate becomes learning_rate * fine_step_factor and the *)
(* loop goes on to the next epoch; such a run is never stopped at an epoch *)
(* < fine_step_from_epoch.                                                 *)
(***************************************************************************)
C4_FineTuneInsteadOfStop ==
    [][ /\ (PlateauGuardHolds /\ hparams.use_fine_step
              /\ epoch < hparams.fine_step_from_epoch)
           => /\ pc' = "for"
              /\ error' = "none"
              /\ epoch' = epoch
              /\ learning_rate' = hparams.learning_rate * hparams.fine_step_factor
        /\ (pc = "for" /\ epoch < hparams.epochs)
           => (pc' = "train" /\ epoch' = epoch + 1)
        /\ (pc' = "stopped" /\ hparams.use_fine_step)
           => epoch' >= hparams.fine_step_from_epoch ]_vars

C4_Witness ==
    /\ hparams.use_early_stopping
    /\ hparams.use_fine_step
    /\ pc = "train"
    /\ epoch < hparams.fine_step_from_epoch
    /\ learning_rate = hparams.learning_rate * hparams.fine_step_factor

(***************************************************************************)
(* C5 as stated: for every delta >= 0 and patience >= 1, with              *)
(* fine-stepping disabled, a metric that kept one value over the epochs of *)
(* the full history and the current epoch stops the run once               *)
(* start_from_epoch has been reached.                                      *)
(***************************************************************************)
C5_Original ==
    [][ (/\ InCallback
         /\ ~hparams.use_fine_step
         /\ hparams.early_stopping_delta >= 0
         /\ hparams.early_stopping_patience >= 1
         /\ epoch >= hparams.early_stopping_start_from_epoch
         /\ ConstantOverHistory)
        => pc' = "stopped" ]_vars

(***************************************************************************)
(* C5 amended: the same for every delta > 0 (the guard is strict, so with  *)
(* delta = 0 a constant metric never triggers): the run stops at that      *)
(* epoch, which is the first epoch at which the guard                      *)
(* current < min(history) + delta holds, and no later epoch is trained.    *)
(***************************************************************************)
C5_ConstantStops ==
    [][ /\ (/\ InCallback
            /\ ~hparams.use_fine_step
            /\ hparams.early_stopping_delta > 0
            /\ hparams.early_stopping_patience >= 1
            /\ epoch >= hparams.early_stopping_start_from_epoch
            /\ ConstantOverHistory)
           => /\ pc' = "stopped"
              /\ error' = "none"
              /\ GuardAt(epoch)
              /\ \A e \in 1..(epoch - 1) : ~GuardAt(e)
        /\ pc = "stopped" => (pc' = "stopped" /\ epoch' = epoch /\ step' = step) ]_vars

C5_Witness ==
    /\ pc = "stopped"
    /\ ~hparams.use_fine_step
    /\ hparams.early_stopping_delta > 0
    /\ hparams.early_stopping_patience = 2
    /\ Len(last_eval_res) = 2
    /\ \A i \in 1..Len(last_eval_res) : last_eval_res[i] = Current

(***************************************************************************)
(* C6: the plateau guard takes effect only with early stopping enabled and *)
(* at an epoch >= start_from_epoch: before that epoch, and always when     *)
(* early stopping is disabled, the callback neither stops the run nor      *)
(* changes the learning rate, whatever the metric values.                  *)
(***************************************************************************)
C6_GuardOnlyFromStartEpoch ==
    [][ /\ (/\ pc = "callback"
            /\ \/ ~hparams.use_early_stopping
               \/ epoch < hparams.early_stopping_start_from_epoch)
           => (pc' # "stopped" /\ learning_rate' = learning_rate)
        /\ pc' = "stopped"
           => /\ hparams.use_early_stopping
              /\ epoch' >= hparams.early_stopping_start_from_epoch ]_vars

C6_Witness ==
    /\ pc = "for"
    /\ hparams.use_early_stopping
    /\ MetricReported
    /\ hparams.early_stopping_patience >= 1
    /\ epoch >= 2
    /\ epoch < hparams.early_stopping_start_from_epoch
    /\ Monitored(epoch) < Monitored(epoch - 1) + hparams.early_stopping_delta

(***************************************************************************)
(* C7: an epoch whose callback ends without stopping appends the current   *)
(* monitored value to the history, after discarding the oldest entry when  *)
(* the length has reached patience, be it before start_from_epoch, without *)
(* a plateau, or with a plateau that switched to fine tuning; the epoch    *)
(* that stops the run leaves the history unchanged.  (With patience >= 1   *)
(* and the guard defined, the callback ends in one of these two ways.)     *)
(***************************************************************************)
C7_HistoryUpdate ==
    [][ InCallback
        => /\ pc' = "stopped" => last_eval_res' = last_eval_res
           /\ pc' = "for" => last_eval_res' = HistoryAfterUpdate
           /\ (/\ hparams.early_stopping_patience >= 1
               /\ \/ epoch < hparams.early_stopping_start_from_epoch
                  \/ last_eval_res # <<>>)
              => pc' \in {"for", "stopped"}
           /\ (PlateauGuardHolds /\ hparams.use_fine_step
                 /\ epoch < hparams.fine_step_from_epoch)
              => last_eval_res' = HistoryAfterUpdate ]_vars

C7_Witness ==
    /\ pc = "for"
    /\ hparams.use_early_stopping
    /\ hparams.use_fine_step
    /\ epoch < hparams.fine_step_from_epoch
    /\ learning_rate = hparams.learning_rate * hparams.fine_step_factor
    /\ epoch > hparams.early_stopping_patience
    /\ Len(last_eval_res) = hparams.early_stopping_patience
    /\ last_eval_res[Len(last_eval_res)] = Monitored(epoch)

(***************************************************************************)
(* C8 as stated: with fine-stepping enabled, every training step of every  *)
(* epoch >= fine_step_from_epoch runs with the learning rate               *)
(* learning_rate * fine_step_factor, for every fine_step_from_epoch.       *)
(***************************************************************************)
C8_FineStepFromEpoch ==
    (/\ hparams.use_fine_step
     /\ pc = "train"
     /\ step >= 1
     /\ epoch >= hparams.fine_step_from_epoch)
    => learning_rate = hparams.learning_rate * hparams.fine_step_factor

(***************************************************************************)
(* C9: with early stopping enabled and the monitored metric absent from    *)
(* the evaluation result, the run fails with the lookup's KeyError in the  *)
(* callback of the first epoch: no second epoch starts, the history stays  *)
(* empty, and custom_fit never returns normally.                           *)
(***************************************************************************)
C9_MissingMetricFatal ==
    (hparams.use_early_stopping /\ ~hparams.deactivate_eval /\ ~MetricReported)
    => /\ epoch <= 1
       /\ pc \notin {"returned", "stopped"}
       /\ pc = "for" => epoch = 0
       /\ pc = "failed" => error \in {"KeyError", "ZeroDivisionError"}
       /\ error = "KeyError" => (pc = "failed" /\ epoch = 1)
       /\ last_eval_res = <<>>

C9_Witness ==
    /\ pc = "failed"
    /\ error = "KeyError"
    /\ epoch = 1
    /\ hparams.epochs >= 2
    /\ hparams.early_stopping_start_from_epoch >= 2

(***************************************************************************)
(* Vocabulary of the properties of group_labels.                           *)
(***************************************************************************)
\* the elements of xs whose key is k, in their order in xs
Selected(xs, k) ==
    LET idx == { j \in 1..Len(group_keys) : group_keys[j] = k }
    IN  [r \in 1..Cardinality(idx) |->
            xs[CHOOSE j \in idx : Cardinality({ h \in idx : h < j }) = r - 1]]

RECURSIVE TotalLen(_)
TotalLen(gs) == IF gs = <<>> THEN 0 ELSE Len(Head(gs)) + TotalLen(Tail(gs))

(***************************************************************************)
(* C10: for parallel labels, preds, group_keys of one length, group_labels *)
(* returns the distinct keys in ascending order, each once; the i-th label *)
(* group and prediction group hold exactly the input elements with the     *)
(* i-th key, in encounter order; the groups hold as many labels (and       *)
(* predictions) in total as the input has.                                 *)
(***************************************************************************)
C10_GroupLabels ==
    g_pc = "done"
    => LET keys == grouped[1]
           gl == grouped[2]
           gp == grouped[3]
       IN  /\ Range(keys) = Range(group_keys)
           /\ \A i \in 1..Len(keys) : \A j \in 1..Len(keys) :
                 i < j => keys[i] < keys[j]
           /\ Len(gl) = Len(keys)
           /\ Len(gp) = Len(keys)
           /\ \A i \in 1..Len(keys) :
                 /\ gl[i] = Selected(labels, keys[i])
                 /\ gp[i] = Selected(preds, keys[i])
           /\ TotalLen(gl) = Len(labels)
           /\ TotalLen(gp) = Len(preds)

C10_Witness ==
    /\ g_pc = "done"
    /\ group_keys = <<2, 1, 2>>
    /\ labels = <<1, 0, 0>>
    /\ preds = <<2, 0, 1>>
    /\ grouped = << <<1, 2>>, << <<0>>, <<1, 0>> >>, << <<0>>, <<2, 1>> >> >>

(***************************************************************************)
(* Vocabulary of the later properties of custom_fit.                       *)
(***************************************************************************)
\* epochs that have passed the save of lines 533-535
SavesDue ==
    IF \/ pc \in {"callback", "for", "returned", "stopped"}
       \/ pc = "failed" /\ error # "ZeroDivisionError"
    THEN epoch ELSE epoch - 1

\* the callback is about to evaluate the guard on a non-empty history
GuardEvaluated ==
    /\ InCallback
    /\ epoch >= hparams.early_stopping_start_from_epoch
    /\ last_eval_res # <<>>

\* lowest and highest value held in the history
Lowest == CHOOSE m \in Range(last_eval_res) : \A x \in Range(last_eval_res) : m <= x

Best == CHOOSE m \in Range(last_eval_res) : \A x \in Range(last_eval_res) : m >= x

\* the plateau branch shows: the run stops, or the learning rate is switched
PlateauShows ==
    \/ ~hparams.use_fine_step
    \/ epoch >= hparams.fine_step_from_epoch
    \/ learning_rate # hparams.learning_rate * hparams.fine_step_factor

TreatedAsPlateau == pc' = "stopped" \/ learning_rate' # learning_rate

(***************************************************************************)
(* C14: with a checkpoint_path the weights are saved exactly once per      *)
(* epoch, after the epoch's training pass and evaluation and before the    *)
(* early-stopping decision, so the epoch that stops the run is saved too;  *)
(* without a checkpoint_path nothing is ever saved.                        *)
(***************************************************************************)
C14_CheckpointEveryEpoch ==
    n_save = IF checkpoint_path THEN SavesDue ELSE 0

C14_Witness ==
    /\ checkpoint_path
    /\ pc = "stopped"
    /\ epoch >= 2
    /\ n_save = epoch

(***************************************************************************)
(* C18 as stated: for delta >= 0 an epoch at or after start_from_epoch is  *)
(* treated as a plateau exactly when its value does not exceed the best    *)
(* (highest) value of the history by delta; in particular a value below    *)
(* the best recorded one is always a plateau.                              *)
(***************************************************************************)
C18_Original ==
    [][ (GuardEvaluated /\ PlateauShows /\ hparams.early_stopping_delta >= 0)
        => /\ TreatedAsPlateau <=> Current < Best + hparams.early_stopping_delta
           /\ Current < Best => TreatedAsPlateau ]_vars

(***************************************************************************)
(* C18 amended: an epoch at or after start_from_epoch is treated as a      *)
(* plateau exactly when its value is below the lowest value of the history *)
(* plus delta; for delta >= 0 a value below the lowest recorded one is     *)
(* always a plateau (a value below the best one need not be).              *)
(***************************************************************************)
C18_PlateauAgainstLowest ==
    [][ (GuardEvaluated /\ PlateauShows)
        => /\ TreatedAsPlateau <=> Current < Lowest + hparams.early_stopping_delta
           /\ (hparams.early_stopping_delta >= 0 /\ Current < Lowest)
              => TreatedAsPlateau ]_vars

C18_Witness ==
    /\ pc = "for"
    /\ hparams.use_early_stopping
    /\ ~hparams.use_fine_step
    /\ MetricReported
    /\ hparams.early_stopping_patience = 2
    /\ hparams.early_stopping_start_from_epoch = 2
    /\ hparams.early_stopping_delta = 0
    /\ epoch = 3
    /\ Monitored(3) < Monitored(2)
    /\ Monitored(3) >= Monitored(1)

(***************************************************************************)
(* C19 as stated: with early stopping enabled the history operations are   *)
(* always defined: min() and popleft() never meet an empty history, so the *)
(* stopping policy never raises.                                           *)
(***************************************************************************)
C19_HistoryOpsDefined ==
    hparams.use_early_stopping => error \notin {"ValueError", "IndexError"}

(***************************************************************************)
(* C20: the learning rate is always the value it had at the start of the   *)
(* run or hparams.learning_rate * fine_step_factor, however many times the *)
(* plateau trigger and the trigger of epoch == fine_step_from_epoch fire,  *)
(* and once reduced it stays reduced.                                      *)
(***************************************************************************)
C20_NoCompounding ==
    [][ /\ learning_rate' \in { hparams.learning_rate,
                                hparams.learning_rate * hparams.fine_step_factor }
        /\ learning_rate = hparams.learning_rate * hparams.fine_step_factor
           => learning_rate' = learning_rate ]_vars

C20_Witness ==
    /\ hparams.use_early_stopping
    /\ hparams.use_fine_step
    /\ MetricReported
    /\ pc = "train"
    /\ epoch = 3
    /\ hparams.fine_step_from_epoch = 3
    /\ GuardAt(2)
    /\ learning_rate = hparams.learning_rate * hparams.fine_step_factor

(***************************************************************************)
(* Vocabulary of the properties of fit.                                    *)
(***************************************************************************)
RECURSIVE SumSeq(_)
SumSeq(xs) == IF xs = <<>> THEN 0 ELSE Head(xs) + SumSeq(Tail(xs))

\* the calls one epoch is to make: load, one train per batch, valid, test
ExpectedTraining(e) ==
    <<[call |-> "load", epoch |-> e, step |-> 0]>>
    \o [k \in 1..n_batches |-> [call |-> "train", epoch |-> e, step |-> k]]

ExpectedEvaluation(e) ==
    <<[call |-> "valid", epoch |-> e, step |-> 0]>>
    \o (IF test_news_file THEN <<[call |-> "test", epoch |-> e, step |-> 0]>> ELSE <<>>)

RECURSIVE ExpectedCalls(_)
ExpectedCalls(n) ==
    IF n = 0 THEN <<>>
    ELSE ExpectedCalls(n - 1) \o ExpectedTraining(n) \o ExpectedEvaluation(n)

\* fit's epoch loss is the sum of this epoch's step losses over their number
LossIsAverage ==
    /\ Len(f_losses) = n_batches
    /\ train_info = <<SumSeq(f_losses), n_batches>>

(***************************************************************************)
(* C13 as stated: for every finite batch sequence fit runs exactly         *)
(* hparams.epochs epochs, each a load, one training step per batch, the    *)
(* average loss, one validation and (if given) one test evaluation.        *)
(***************************************************************************)
C13_Original ==
    f_pc \in {"returned", "failed"}
    => /\ f_pc = "returned"
       /\ f_epoch = hparams.epochs
       /\ f_trace = ExpectedCalls(hparams.epochs)

(***************************************************************************)
(* C13 amended: the same for every non-empty finite batch sequence (on an  *)
(* empty one the average divides by zero and fit raises in epoch 1): fit   *)
(* never fails, returns after exactly hparams.epochs epochs, each epoch    *)
(* loads a fresh sequence, trains once per batch in order, reports the sum *)
(* of its step losses over their number (9, 7, 5 tenths give 21 / 3), and  *)
(* evaluates before the next epoch starts.                                 *)
(***************************************************************************)
C13_FitEpochs ==
    n_batches >= 1
    => /\ f_pc # "failed"
       /\ f_pc = "returned" => (f_epoch = hparams.epochs
                                /\ f_trace = ExpectedCalls(hparams.epochs))
       /\ f_pc = "for" => f_trace = ExpectedCalls(f_epoch)
       /\ f_pc = "eval" => /\ LossIsAverage
                           /\ f_trace = ExpectedCalls(f_epoch - 1)
                                        \o ExpectedTraining(f_epoch)
       /\ (f_pc \in {"for", "returned"} /\ f_epoch >= 1) => LossIsAverage

C13_Witness ==
    /\ f_pc = "returned"
    /\ hparams.epochs = 2
    /\ test_news_file
    /\ f_losses = <<9, 7, 5>>
    /\ train_info = <<7 * 3, 3>>
    /\ Len(f_trace) = 2 * (1 + 3 + 2)

(***************************************************************************)
(* C17: with early stopping, fine-stepping, deactivate_eval and            *)
(* checkpoint_path disabled or absent, custom_fit makes the same sequence  *)
(* of batch loads, training steps and evaluation calls over the same       *)
(* epochs as fit on the same inputs, and ends the same way.                *)
(***************************************************************************)
C17_CustomFitIsFit ==
    (/\ pc \in {"returned", "failed", "stopped"}
     /\ ~hparams.use_early_stopping
     /\ ~hparams.use_fine_step
     /\ ~hparams.deactivate_eval
     /\ ~checkpoint_path)
    => /\ trace = f_trace
       /\ epoch = f_epoch
       /\ pc = f_pc
       /\ learning_rate = hparams.learning_rate
       /\ n_save = 0

C17_Witness ==
    /\ pc = "returned"
    /\ f_pc = "returned"
    /\ ~hparams.deactivate_eval
    /\ test_news_file
    /\ hparams.epochs >= 2
    /\ n_batches >= 2
    /\ trace = f_trace
    /\ Len(trace) = hparams.epochs * (n_batches + 3)

(***************************************************************************)
(* Vocabulary of the properties of the evaluation paths.                   *)
(***************************************************************************)
\* the inner product of two vectors of one length
InnerProduct(u, v) == SumSeq([i \in 1..Len(u) |-> u[i] * v[i]])

\* the groups three parallel lists hold
GroupsOf(keys, gl, gp) == { <<keys[k], gl[k], gp[k]>> : k \in 1..Len(keys) }

\* the mapping that gives each emitted index the vector of its last emission
LastWins(ks, vs) ==
    [i \in Range(ks) |->
        vs[CHOOSE k \in 1..Len(ks) :
              ks[k] = i /\ \A h \in 1..Len(ks) : ks[h] = i => h <= k]]

\* a mapping holds entries of this call's stream only
FromFile(d, F) == DOMAIN d = Indexes(F) /\ \A i \in DOMAIN d : <<i, d[i]>> \in F

\* what holds of the two mappings at each position of run_fast_eval
CachesFromThisCall ==
    /\ e_pc = "run_user" => news_vecs = LastWins(news_indexes, news_vec_list)
    /\ e_pc = "store" => user_vecs = LastWins(user_indexes, user_vec_list)
    /\ e_pc \in {"impressions", "returned"}
       => /\ self_news_vecs = news_vecs
          /\ self_user_vecs = user_vecs
          /\ FromFile(self_news_vecs, news_file)
          /\ FromFile(self_user_vecs, user_file)

(***************************************************************************)
(* C11: with a scorer that is the dot product of the two encoder vectors,  *)
(* run_fast_eval and run_slow_eval on the same files hand the metric       *)
(* engine the same set of groups - as many groups, and for every           *)
(* impression the same label list and prediction list - and run_eval       *)
(* returns the same metric values on either path.                          *)
(***************************************************************************)
C11_FastEqualsSlow ==
    s_pc = "returned"
    => /\ Len(grouped[1]) = Len(group_impr_indexes)
       /\ GroupsOf(grouped[1], grouped[2], grouped[3])
          = GroupsOf(group_impr_indexes, e_group_labels, e_group_preds)
       /\ RunEval(FALSE) = RunEval(TRUE)

C11_Witness ==
    /\ s_pc = "returned"
    /\ group_impr_indexes = <<1, 0>>
    /\ grouped[1] = <<0, 1>>
    /\ e_group_preds = << <<1, 1>>, <<2, 3>> >>
    /\ grouped[3] = << <<2, 3>>, <<1, 1>> >>
    /\ grouped[2] = << <<1, 0>>, <<0, 1>> >>

(***************************************************************************)
(* C12: run_fast_eval emits one group per record of the impression stream, *)
(* in stream order: the k-th group has the k-th record's impr_index as its *)
(* key, its label list unchanged, and as j-th prediction the inner product *)
(* of news_vecs[news_index[j]] and user_vecs[impr_index].                  *)
(***************************************************************************)
C12_OneGroupPerRecord ==
    e_pc \in {"impressions", "returned"}
    => /\ Len(group_impr_indexes) = Len(impr_seen)
       /\ Len(e_group_labels) = Len(impr_seen)
       /\ Len(e_group_preds) = Len(impr_seen)
       /\ \A k \in 1..Len(impr_seen) :
             LET rec == impr_seen[k]
             IN  /\ group_impr_indexes[k] = rec.impr_index
                 /\ e_group_labels[k] = rec.label
                 /\ Len(e_group_preds[k]) = Len(rec.news_index)
                 /\ \A j \in 1..Len(rec.news_index) :
                       e_group_preds[k][j]
                       = InnerProduct(news_vecs[rec.news_index[j]],
                                      user_vecs[rec.impr_index])

C12_Witness ==
    /\ e_pc = "returned"
    /\ impr_seen = << [impr_index |-> 0, news_index |-> <<10, 11>>, user_index |-> 0,
                       label |-> <<1, 0>>] >>
    /\ news_vecs = (10 :> <<1, 0>>) @@ (11 :> <<0, 1>>)
    /\ user_vecs = (0 :> <<2, 3>>)
    /\ group_impr_indexes = <<0>>
    /\ e_group_preds = << <<2, 3>> >>
    /\ e_group_labels = << <<1, 0>> >>

(***************************************************************************)
(* C15: every run_fast_eval call builds both mappings anew: run_news and   *)
(* run_user return exactly the indices their streams emitted, an index     *)
(* emitted more than once with the vector of its last emission; nothing    *)
(* alters the mappings afterwards; and from the assignment on              *)
(* self.news_vecs and self.user_vecs are these mappings, with no entry of  *)
(* an earlier call.                                                        *)
(***************************************************************************)
C15_CachesRebuilt ==
    [][ /\ CachesFromThisCall'
        /\ e_pc \in {"run_user", "users", "store", "impressions"}
           => news_vecs' = news_vecs
        /\ e_pc \in {"store", "impressions"} => user_vecs' = user_vecs
        /\ e_pc = "impressions"
           => UNCHANGED <<self_news_vecs, self_user_vecs>> ]_vars

C15_Witness ==
    /\ e_pc = "store"
    /\ 12 \in DOMAIN self_news_vecs
    /\ DOMAIN news_vecs = {10, 11}
    /\ user_indexes = <<0, 1, 0>>
    /\ user_vec_list = << <<2, 3>>, <<2, 3>>, <<1, 1>> >>
    /\ user_vecs = (0 :> <<1, 1>>) @@ (1 :> <<2, 3>>)

(***************************************************************************)
(* C16: without newsencoder run_news raises ValueError before it takes a   *)
(* batch of the news stream, without userencoder run_user raises before it *)
(* takes a batch of the user stream; the run_fast_eval call is over, has   *)
(* taken no impression record and produced no group, and self.news_vecs    *)
(* and self.user_vecs are as they were when it was called.                 *)
(***************************************************************************)
C16_MissingEncoderFatal ==
    [][ /\ (e_pc = "run_news" /\ ~has_newsencoder)
           => (e_pc' = "failed" /\ e_error' = "ValueError" /\ news_indexes' = <<>>)
        /\ (e_pc = "run_user" /\ ~has_userencoder)
           => (e_pc' = "failed" /\ e_error' = "ValueError" /\ user_indexes' = <<>>)
        /\ e_pc' = "failed"
           => /\ impr_seen' = <<>>
              /\ group_impr_indexes' = <<>>
              /\ e_group_labels' = <<>>
              /\ e_group_preds' = <<>>
        /\ (e_pc \in {"run_news", "news", "run_user", "users"} \/ e_pc' = "failed")
           => UNCHANGED <<self_news_vecs, self_user_vecs>>
        /\ e_pc = "failed" => UNCHANGED fast_vars ]_vars

C16_Witness ==
    /\ e_pc = "failed"
    /\ e_error = "ValueError"
    /\ has_newsencoder
    /\ ~has_userencoder
    /\ DOMAIN news_vecs = {10, 11}
    /\ 12 \in DOMAIN self_news_vecs
    /\ user_indexes = <<>>
    /\ impr_seen = <<>>

(***************************************************************************)
(* C21: _get_opt resolves the configured name case-insensitively: a name   *)
(* that is 'rmsprop', 'sgd' or 'adamw' in lower case yields an optimizer   *)
(* of the class opt_dict gives (RMSprop, SGD, AdamW), any other name one   *)
(* of the class named by its capitalized form where keras.optimizers has   *)
(* it, and the optimizer carries hparams.learning_rate.                    *)
(***************************************************************************)
C21_OptimizerResolved ==
    o_pc \in {"returned", "failed"}
    => LET name == Lower(hparams.optimizer)
       IN  /\ name \in DOMAIN opt_dict
              => (o_pc = "returned" /\ train_opt.class = opt_dict[name])
           /\ (name \notin DOMAIN opt_dict /\ Capitalize(name) \in KerasOptimizers)
              => (o_pc = "returned" /\ train_opt.class = Capitalize(name))
           /\ o_pc = "returned" => train_opt.learning_rate = hparams.learning_rate

====
